---- MODULE Spec2Model ----
(***************************************************************************)
(* Tracker commit state machine of the RPG Companion extension.            *)
(*                                                                         *)
(* The extension keeps two tracker snapshots (lastGeneratedData and        *)
(* committedTrackerData, core/state.js), a per-message swipe ledger        *)
(* (message.extra.rpg_companion_swipes) and a pending-swipe flag           *)
(* (lastActionWasSwipe).  The host (SillyTavern) drives it through the     *)
(* events MESSAGE_SENT, GENERATION_STARTED, MESSAGE_RECEIVED and           *)
(* MESSAGE_SWIPED; each handler is one action below.  The host's part of   *)
(* a step (appending the user message, writing the reply into the chat,    *)
(* moving swipe_id) is the input of the handler's action.                  *)
(*                                                                         *)
(* Abstractions:                                                           *)
(*  - a reply is a narrative flag plus a sequence of fenced blocks; a       *)
(*    block is described by the tracker kind its content matches, by       *)
(*    whether it carries the standard header that the message-cleaning     *)
(*    regexes remove, and by its body;                                     *)
(*  - stored message texts keep only whether they are empty ("") or not    *)
(*    ("t"), which is all onMessageSwiped reads of them;                   *)
(*  - settings without a handler in the sources stay at their defaults     *)
(*    (showUserStats, showInfoBox, showCharacterThoughts true;             *)
(*    enableActionSuggestions, enableHtmlPrompt false; lastDiceRoll null); *)
(*  - parseUserStats, the renderers and saveChatData do not touch the      *)
(*    variables modelled here.                                             *)
(***************************************************************************)
EXTENDS Integers, Sequences, FiniteSets, TLC

\* ---------------------------------------------------------------- bounds
MaxChat == 3        \* messages in the chat
MaxSwipes == 2      \* alternate-response slots per assistant message
MaxBlocks == 2      \* fenced regions in a reply handed to the parser
MaxLines == 4       \* lines of a fenced region handed to the splitter
MaxText == 5        \* characters and words of a text handed to stripBrackets
MaxCandidates == 4  \* list lines of a text handed to parseActionSuggestions
MaxBatches == 3     \* batches of one memory recollection run

\* ---------------------------------------------------------------- limits
ActionLengthLimit == 200    \* actionText.length < 200
MaxActions == 3             \* if (actions.length >= 3) break

\* ---------------------------------------------------------------- values
NULL == "null"                     \* JavaScript null / undefined
Fields == {"userStats", "infoBox", "characterThoughts"}

\* JavaScript truthiness of a string-or-null value
Falsy(v) == v = NULL \/ v = ""
\* variant: the stored value is read back as it is
OrNullKeep(v) == v

\* the expression  v || null
OrNull(v) == IF Falsy(v) THEN NULL ELSE v

\* lastGeneratedData / committedTrackerData as constructed
EmptyData == [userStats |-> NULL, infoBox |-> NULL, characterThoughts |-> NULL]

\* the result object parseResponse starts from
EmptyResult ==
    [userStats |-> NULL, infoBox |-> NULL, characterThoughts |-> NULL,
     actionSuggestions |-> NULL]

\* a swipe index without an entry in message.extra.rpg_companion_swipes
NoEntry == [absent |-> TRUE]

\* ---------------------------------------------------------------- replies
\* kind: the section the block's content is classified as ("none": no match)
\* std : the block carries one of the headers "Stats", "Info Box",
\*       "Present Characters", "Action Suggestions", "Suggested Actions"
\*       followed by ---, which is what the cleaning regexes look for;
\*       FALSE for header variants and content-shape fallbacks
\* body: "a" is tracker text; "ph" is a fallback-shaped info block holding
\*       only labels and placeholders
\*       ("Date: [Date]\nLocation: [Location]\nTime: [Time]")
Block(k, s, v) == [kind |-> k, std |-> s, body |-> v]

\* the replies the model's host delivers
ReplyPlain ==          \* narrative only
    [narr |-> TRUE, blocks |-> <<>>]
ReplyScene ==          \* info box and present characters and nothing else
    [narr |-> FALSE,
     blocks |-> <<Block("info", TRUE, "a"), Block("chars", TRUE, "a")>>]
ReplyTemplate ==       \* stats, and the info template echoed back unfilled
    [narr |-> TRUE,
     blocks |-> <<Block("stats", TRUE, "a"), Block("info", FALSE, "ph")>>]

Replies == {ReplyPlain, ReplyScene, ReplyTemplate}

\* variant: the block content is stored as the model wrote it
stripBracketsKeep(body) == body

\* placeholder removal and empty-label cleanup: a block of labels and
\* placeholders only is reduced to the empty string
stripBrackets(body) == IF body = "ph" THEN "" ELSE body

\* variant: every matching block is assigned, the last one stays
RECURSIVE parseBlocksLastWins(_, _, _)
parseBlocksLastWins(blocks, i, result) ==
    IF i > Len(blocks) THEN result
    ELSE LET b == blocks[i]
             r == IF b.kind = "stats"
                    THEN [result EXCEPT !.userStats = stripBrackets(b.body)]
                  ELSE IF b.kind = "info"
                    THEN [result EXCEPT !.infoBox = stripBrackets(b.body)]
                  ELSE IF b.kind = "chars"
                    THEN [result EXCEPT !.characterThoughts = stripBrackets(b.body)]
                  ELSE IF b.kind = "actions"
                    THEN [result EXCEPT !.actionSuggestions = b.body]
                  ELSE result
         IN  parseBlocksLastWins(blocks, i + 1, r)

RECURSIVE parseBlocks(_, _, _)
parseBlocks(blocks, i, result) ==
    IF i > Len(blocks) THEN result
    ELSE LET b == blocks[i]
             r == IF b.kind = "stats" /\ Falsy(result.userStats)
                    THEN [result EXCEPT !.userStats = stripBrackets(b.body)]
                  ELSE IF b.kind = "info" /\ Falsy(result.infoBox)
                    THEN [result EXCEPT !.infoBox = stripBrackets(b.body)]
                  ELSE IF b.kind = "chars" /\ Falsy(result.characterThoughts)
                    THEN [result EXCEPT !.characterThoughts = stripBrackets(b.body)]
                  ELSE IF b.kind = "actions" /\ Falsy(result.actionSuggestions)
                    THEN [result EXCEPT !.actionSuggestions = b.body]
                  ELSE result
         IN  parseBlocks(blocks, i + 1, r)

parseResponse(responseText) == parseBlocks(responseText.blocks, 1, EmptyResult)

\* the text onMessageReceived stores back: standard-header blocks removed,
\* then trimmed; "" when nothing is left
cleanedMessage(responseText) ==
    IF ~responseText.narr
       /\ \A i \in 1..Len(responseText.blocks) : responseText.blocks[i].std
    THEN "" ELSE "t"

\* the tracker block removal of onMessageReceived on the reply text: the
\* five regexes delete the fenced regions that hold a standard header
\* followed by ---, and nothing else
removeTrackerBlocks(responseText) ==
    [narr |-> responseText.narr,
     blocks |-> SelectSeq(responseText.blocks, LAMBDA b : ~b.std)]

\* the replies the parser is applied to on its own: narrative or none, and
\* up to MaxBlocks fenced regions.  "a" and "b" are two tracker texts.  Only
\* a fallback-shaped info block can hold labels and placeholders only:
\* every header survives stripBrackets, the stats and characters fallbacks
\* need a number or a name, and action blocks are not stripped.
Kinds == {"stats", "info", "chars", "actions"}
BlockShapes ==
    {Block(k, s, v) : k \in Kinds, s \in BOOLEAN, v \in {"a", "b"}}
        \cup {Block("info", FALSE, "ph")}
ParserReplies ==
    {[narr |-> n, blocks |-> bs] :
        n \in BOOLEAN,
        bs \in UNION {[1..k -> BlockShapes] : k \in 0..MaxBlocks}}

\* ---------------------------------------------------------------- prompts
\* generateTrackerExample / generateContextualSummary: the committed fields
\* that are truthy, in order; all NULL stands for the empty string
generateTrackerExample(c) == [f \in Fields |-> OrNull(c[f])]
generateContextualSummary(c) == [f \in Fields |-> OrNull(c[f])]

NoText == EmptyData

\* the extension prompt slots as cleared by clearExtensionPrompts
ClearedPrompts ==
    [inject |-> "", example |-> NoText, html |-> "", context |-> NoText,
     actions |-> ""]

\* ---------------------------------------------------------------- state
VARIABLES
    enabled,               \* extensionSettings.enabled
    generationMode,        \* extensionSettings.generationMode
    lastGeneratedData,
    committedTrackerData,
    lastActionWasSwipe,
    isGenerating,
    isPlotProgression,
    chat,                  \* the host's chat array
    prompts,               \* the host's extension prompt slots
    pc,                    \* where the host is in its generation cycle
    genKind,               \* what started the generation in flight
    plot,                  \* sendPlotProgression: "none", "running", "timer"
    wasEnabled,            \* sendPlotProgression's local wasEnabled
    plotButtonsDisabled,   \* disabled property of the two plot buttons
    turnCommitted,         \* history: Committed read by the turn's first build
    saveFailed,            \* the latest saveChatData of a completion failed
    checkboxChecked,       \* checked property of #rpg-extension-enabled
    call,                  \* a parser function applied on its own: fn, arg, out
    recollection           \* startMemoryRecollection: where the run stands

vars ==
    <<enabled, generationMode, lastGeneratedData, committedTrackerData,
      lastActionWasSwipe, isGenerating, isPlotProgression, chat, prompts,
      pc, genKind, plot, wasEnabled, plotButtonsDisabled, turnCommitted,
      saveFailed, checkboxChecked, call, recollection>>

\* the state of the tracker handlers
trackerVars ==
    <<enabled, generationMode, lastGeneratedData, committedTrackerData,
      lastActionWasSwipe, isGenerating, isPlotProgression, chat, prompts,
      pc, genKind, plot, wasEnabled, plotButtonsDisabled, turnCommitted,
      saveFailed, checkboxChecked>>

\* everything but the parser call
programVars == <<trackerVars, recollection>>

NoLedger == [i \in 0..(MaxSwipes - 1) |-> NoEntry]

UserMessage ==
    [is_user |-> TRUE, swipe_id |-> 0, swipes |-> <<>>,
     led |-> NoLedger]

\* an assistant message as the host pushes it, before any handler runs
NewAssistantMessage ==
    [is_user |-> FALSE, swipe_id |-> 0, swipes |-> <<"t">>,
     led |-> NoLedger]

LastMessage == chat[Len(chat)]

\* Only the last chat entry is ever read beyond its is_user flag
\* (chat[chat.length - 1] in onMessageReceived, the swiped message in
\* onMessageSwiped), so the entries below it keep their is_user flag only.
ArchivedMessage ==
    [is_user |-> FALSE, swipe_id |-> 0, swipes |-> <<>>, led |-> NoLedger]
Archived(c) ==
    [i \in 1..Len(c) |-> IF c[i].is_user THEN c[i] ELSE ArchivedMessage]

InitProgram ==
    /\ enabled = TRUE
    /\ generationMode = "together"
    /\ lastGeneratedData = EmptyData
    /\ committedTrackerData = EmptyData
    /\ lastActionWasSwipe = FALSE
    /\ isGenerating = FALSE
    /\ isPlotProgression = FALSE
    /\ chat = <<>>
    /\ prompts = ClearedPrompts
    /\ pc = "idle"
    /\ genKind = "none"
    /\ plot = "none"
    /\ wasEnabled = TRUE
    /\ plotButtonsDisabled = FALSE
    /\ turnCommitted = NoEntry
    /\ saveFailed = FALSE
    /\ checkboxChecked = TRUE
    /\ recollection = [phase |-> "idle"]

NoCall == [fn |-> "none"]

Init == InitProgram /\ call = NoCall

\* ---------------------------------------------------------------- helpers
\* the user can act: no generation in flight, no plot-progression call
\* waiting for Generate to return
UserIdle == pc = "idle" /\ plot # "running"

LastIsAssistant == chat # <<>> /\ ~LastMessage.is_user

\* the host stores a reply text into the current swipe slot of a message
WriteSlot(m, t) ==
    IF m.swipe_id < Len(m.swipes)
    THEN [m EXCEPT !.swipes[m.swipe_id + 1] = t]
    ELSE [m EXCEPT !.swipes = Append(m.swipes, t)]

\* the chat as the host leaves it before it emits MESSAGE_RECEIVED: a new
\* assistant message after a user message, the reply written into the
\* current swipe slot of the last assistant message otherwise
Delivered(kind) ==
    IF kind # "send" /\ LastIsAssistant
    THEN [chat EXCEPT ![Len(chat)] = WriteSlot(LastMessage, "t")]
    ELSE Append(chat, NewAssistantMessage)

CanDeliver(kind) == (kind # "send" /\ LastIsAssistant) \/ Len(chat) < MaxChat

\* for (depth = 1; depth < chat.length; depth++): an assistant message
\* below the last chat entry
lastAssistantDepthFound ==
    \E i \in 1..(Len(chat) - 1) : ~chat[i].is_user

AllFalsy(d) == \A f \in Fields : Falsy(d[f])

\* variant: a copy that stops after the first field
TrackerFirstFieldOnly(d) ==
    [f \in Fields |-> IF f = "userStats" THEN d[f]
                      ELSE committedTrackerData[f]]

\* the three tracker fields of a snapshot, as the commit blocks copy them
Tracker(d) == [f \in Fields |-> d[f]]

\* ---------------------------------------------------------------- handlers
\* MESSAGE_SENT: the host has appended the user's message
onMessageSent ==
    /\ UserIdle
    /\ Len(chat) < MaxChat
    /\ chat' = Append(Archived(chat), UserMessage)
    /\ lastActionWasSwipe' = IF enabled THEN FALSE ELSE lastActionWasSwipe
    /\ pc' = "sent"
    /\ turnCommitted' = NoEntry
    /\ UNCHANGED <<enabled, generationMode, lastGeneratedData,
                   committedTrackerData, isGenerating, isPlotProgression,
                   prompts, genKind, plot, wasEnabled, plotButtonsDisabled>>
    /\ UNCHANGED <<saveFailed, checkboxChecked, call, recollection>>

\* variant: the together-mode promotion block is missing
PromotesSeparateOnly ==
    generationMode = "separate" /\ ~isGenerating /\ ~lastActionWasSwipe

\* variant: promotion does not look at the pending-swipe flag
PromotesOnSwipe ==
    \/ generationMode = "separate" /\ ~isGenerating
    \/ generationMode = "together"

\* variant: the separate-mode block does not look at isGenerating
PromotesWhileGenerating ==
    \/ generationMode = "separate" /\ ~lastActionWasSwipe
    \/ generationMode = "together" /\ ~lastActionWasSwipe

\* the promotion decision of onGenerationStarted (both mode branches)
Promotes ==
    \/ generationMode = "separate" /\ ~isGenerating /\ ~lastActionWasSwipe
    \/ generationMode = "together" /\ ~lastActionWasSwipe

\* the slots after onGenerationStarted has injected for committed data c
InjectedPrompts(c) ==
    IF generationMode = "together"
    THEN [inject  |-> "instr",
          example |-> IF generateTrackerExample(c) # NoText
                         /\ lastAssistantDepthFound
                      THEN generateTrackerExample(c) ELSE prompts.example,
          html    |-> "",
          context |-> NoText,
          actions |-> ""]
    ELSE [inject  |-> "",
          example |-> NoText,
          html    |-> "",
          context |-> generateContextualSummary(c),
          actions |-> ""]

\* variant: the enabled check of onGenerationStarted is missing
SkipsInjectionImageOnly(kind) == kind = "image"

\* the two early returns of onGenerationStarted
SkipsInjection(kind) == kind = "image" \/ ~enabled

\* GENERATION_STARTED.  kind is the host's reason for the Generate call:
\* "send" after a user message, "swipe" after a swipe to a new slot, "plot"
\* from sendPlotProgression, "other" for continue/regenerate/quiet, "image"
\* for a quiet image-prompt generation (data.quietImage)
onGenerationStarted(kind) ==
    /\ \/ pc = "sent" /\ kind = "send"
       \/ pc = "swiped" /\ kind = "swipe"
       \/ pc = "plot" /\ kind = "plot"
       \/ UserIdle /\ kind \in {"other", "image"}
    /\ IF SkipsInjection(kind)
       THEN UNCHANGED <<committedTrackerData, prompts>>
       ELSE LET c == IF Promotes THEN Tracker(lastGeneratedData)
                     ELSE committedTrackerData
            IN  /\ committedTrackerData' = c
                /\ prompts' = InjectedPrompts(c)
    /\ pc' = "generating"
    /\ genKind' = kind
    /\ turnCommitted' =
         IF kind = "send" /\ enabled THEN committedTrackerData'
         ELSE IF kind = "swipe" THEN turnCommitted
         ELSE NoEntry
    /\ UNCHANGED <<enabled, generationMode, lastGeneratedData,
                   lastActionWasSwipe, isGenerating, isPlotProgression, chat,
                   plot, wasEnabled, plotButtonsDisabled>>
    /\ UNCHANGED <<saveFailed, checkboxChecked, call, recollection>>

\* variant: the parse result replaces lastGeneratedData as a whole
MergeParsedWholesale(old, parsed) == Tracker(parsed)

\* lastGeneratedData after the three guarded assignments
MergeParsed(old, parsed) ==
    [f \in Fields |-> IF Falsy(parsed[f]) THEN old[f] ELSE parsed[f]]

\* variant: no first-parse auto-promotion
AutoCommitNever(c, parsed) == c

\* first-parse auto-promotion: committedTrackerData after the block that
\* runs when none of its three fields is set
AutoCommit(c, parsed) ==
    IF AllFalsy(c) THEN Tracker(parsed) ELSE c

\* variant: the flag reset at the end of onMessageReceived is missing
resetSwipeFlagSkipped == UNCHANGED lastActionWasSwipe

\* if (lastActionWasSwipe) setLastActionWasSwipe(false)
resetSwipeFlag == lastActionWasSwipe' = FALSE

\* variant: the new entry keeps the older entry's value where the parse
\* result has none
StoreParsedMerged(m, parsed, cleaned) ==
    [WriteSlot(m, cleaned) EXCEPT !.led[m.swipe_id] =
        IF m.led[m.swipe_id] = NoEntry THEN parsed
        ELSE [f \in DOMAIN parsed |->
                IF Falsy(parsed[f]) THEN m.led[m.swipe_id][f]
                ELSE parsed[f]]]

\* variant: the swipe ledger is not written
StoreParsedNoLedger(m, parsed, cleaned) == WriteSlot(m, cleaned)

\* the together-mode body of onMessageReceived applied to the last message
StoreParsed(m, parsed, cleaned) ==
    [WriteSlot(m, cleaned) EXCEPT !.led[m.swipe_id] = parsed]

\* variant: a failed write is raised to the caller of saveChatData
saveChatDataRaises(fails) == fails

\* saveChatData() of core/persistence.js, by its outcome for the caller:
\* a failed write is logged and the call returns, so the caller is never
\* cut short
saveChatDataThrows(fails) == FALSE

\* MESSAGE_RECEIVED: the host has written the reply responseText; saveFails
\* is the outcome of the persistence write that ends the together branch
onMessageReceivedSave(responseText, saveFails) ==
    /\ pc = "generating"
    /\ genKind # "image"
    /\ CanDeliver(genKind)
    /\ LET chat1 == Delivered(genKind)
           last == chat1[Len(chat1)]
           parsedData == parseResponse(responseText)
       IN  IF ~enabled
           THEN /\ chat' = chat1
                /\ saveFails = FALSE
                /\ UNCHANGED <<lastGeneratedData, committedTrackerData,
                               lastActionWasSwipe, isPlotProgression,
                               saveFailed>>
           ELSE /\ IF generationMode = "together"
                   THEN /\ lastGeneratedData' =
                              MergeParsed(lastGeneratedData, parsedData)
                        /\ chat' = [chat1 EXCEPT ![Len(chat1)] =
                              StoreParsed(last, parsedData,
                                          cleanedMessage(responseText))]
                        /\ committedTrackerData' =
                              AutoCommit(committedTrackerData, parsedData)
                        /\ saveFailed' = saveFails
                   ELSE /\ chat' = chat1
                        /\ saveFails = FALSE
                        /\ UNCHANGED <<lastGeneratedData, committedTrackerData,
                                       saveFailed>>
                /\ IF generationMode = "together"
                      /\ saveChatDataThrows(saveFails)
                   THEN UNCHANGED <<lastActionWasSwipe, isPlotProgression>>
                   ELSE /\ resetSwipeFlag
                        /\ isPlotProgression' = FALSE
    /\ pc' = "idle"
    /\ genKind' = "none"
    /\ turnCommitted' = IF genKind \in {"send", "swipe"} THEN turnCommitted
                        ELSE NoEntry
    /\ UNCHANGED <<enabled, generationMode, isGenerating, prompts, plot,
                   wasEnabled, plotButtonsDisabled>>
    /\ UNCHANGED <<checkboxChecked, call, recollection>>

\* MESSAGE_RECEIVED where the persistence write succeeds
onMessageReceived(responseText) == onMessageReceivedSave(responseText, FALSE)

\* the host ends a Generate call without a completion event: the call is
\* aborted or fails, or it was a quiet generation
generationStopped ==
    /\ pc \in {"sent", "swiped", "plot", "generating"}
    /\ pc' = "idle"
    /\ genKind' = "none"
    /\ UNCHANGED <<enabled, generationMode, lastGeneratedData,
                   committedTrackerData, lastActionWasSwipe, isGenerating,
                   isPlotProgression, chat, prompts, plot, wasEnabled,
                   plotButtonsDisabled, turnCommitted>>
    /\ UNCHANGED <<saveFailed, checkboxChecked, call, recollection>>

\* variant: every slot counts as already generated
isExistingSwipeAlways(message, n) == TRUE

\* variant: no slot counts as already generated
isExistingSwipeNever(message, n) == FALSE

\* the swipe slot the user moved to already holds a response text
isExistingSwipe(message, n) ==
    n < Len(message.swipes) /\ message.swipes[n + 1] # ""

\* variant: a slot without ledger entry clears the display data
loadSwipeDataOrClear(old, swipeData) ==
    IF swipeData # NoEntry
    THEN [f \in Fields |-> OrNull(swipeData[f])]
    ELSE EmptyData

\* lastGeneratedData after onMessageSwiped has looked up the ledger entry
\* of the slot: loaded from the entry, or kept when there is none
loadSwipeData(old, swipeData) ==
    IF swipeData # NoEntry
    THEN [f \in Fields |-> OrNull(swipeData[f])]
    ELSE old

\* MESSAGE_SWIPED on the last (assistant) message: the host has moved
\* swipe_id to n; n = number of stored swipes asks for a new response
onMessageSwiped(n) ==
    /\ UserIdle
    /\ LastIsAssistant
    /\ n \in 0..(MaxSwipes - 1)
    /\ n <= Len(LastMessage.swipes)
    /\ n - LastMessage.swipe_id \in {-1, 1}    \* swipe left or right
    /\ LET message == [LastMessage EXCEPT !.swipe_id = n]
           swipeData == message.led[n]
       IN  /\ chat' = [chat EXCEPT ![Len(chat)] = message]
           /\ IF ~enabled
              THEN UNCHANGED <<lastActionWasSwipe, lastGeneratedData>>
              ELSE /\ lastActionWasSwipe' =
                        IF ~isExistingSwipe(message, n) THEN TRUE
                        ELSE lastActionWasSwipe
                   /\ lastGeneratedData' =
                        loadSwipeData(lastGeneratedData, swipeData)
           /\ pc' = IF n = Len(LastMessage.swipes) THEN "swiped" ELSE "idle"
    /\ UNCHANGED <<enabled, generationMode, committedTrackerData,
                   isGenerating, isPlotProgression, prompts, genKind, plot,
                   wasEnabled, plotButtonsDisabled, turnCommitted>>
    /\ UNCHANGED <<saveFailed, checkboxChecked, call, recollection>>

\* ---------------------------------------------------------------- plot
\* click on a plot button: sendPlotProgression up to  await Generate(...)
sendPlotProgression ==
    /\ UserIdle
    /\ ~plotButtonsDisabled
    /\ IF ~enabled
       THEN UNCHANGED <<enabled, wasEnabled, plotButtonsDisabled,
                        isPlotProgression, pc, plot>>
       ELSE /\ plotButtonsDisabled' = TRUE
            /\ wasEnabled' = enabled
            /\ enabled' = FALSE
            /\ isPlotProgression' = TRUE
            /\ pc' = "plot"
            /\ plot' = "running"
    /\ turnCommitted' = NoEntry
    /\ UNCHANGED <<generationMode, lastGeneratedData, committedTrackerData,
                   lastActionWasSwipe, isGenerating, chat, prompts, genKind>>
    /\ UNCHANGED <<saveFailed, checkboxChecked, call, recollection>>

\* await Generate(...) returns or throws: catch and finally blocks
sendPlotProgressionReturn(threw) ==
    /\ plot = "running"
    /\ pc = "idle"
    /\ isPlotProgression' = IF threw THEN FALSE ELSE isPlotProgression
    /\ plot' = "timer"
    /\ UNCHANGED <<enabled, generationMode, lastGeneratedData,
                   committedTrackerData, lastActionWasSwipe, isGenerating,
                   chat, prompts, pc, genKind, wasEnabled,
                   plotButtonsDisabled, turnCommitted>>
    /\ UNCHANGED <<saveFailed, checkboxChecked, call, recollection>>

\* variant: the callback re-enables the buttons only
plotRestoreTimerButtonsOnly ==
    /\ plot = "timer"
    /\ plotButtonsDisabled' = FALSE
    /\ plot' = "none"
    /\ turnCommitted' = NoEntry
    /\ UNCHANGED <<enabled, generationMode, lastGeneratedData,
                   committedTrackerData, lastActionWasSwipe, isGenerating,
                   isPlotProgression, chat, prompts, pc, genKind, wasEnabled>>
    /\ UNCHANGED <<saveFailed, checkboxChecked, call, recollection>>

\* the setTimeout callback of the finally block
plotRestoreTimer ==
    /\ plot = "timer"
    /\ enabled' = wasEnabled
    /\ plotButtonsDisabled' = FALSE
    /\ plot' = "none"
    /\ turnCommitted' = NoEntry
    /\ UNCHANGED <<generationMode, lastGeneratedData, committedTrackerData,
                   lastActionWasSwipe, isGenerating, isPlotProgression, chat,
                   prompts, pc, genKind, wasEnabled>>
    /\ UNCHANGED <<saveFailed, checkboxChecked, call, recollection>>

\* ---------------------------------------------------------------- settings
clearExtensionPrompts == ClearedPrompts

\* change handler of the #rpg-extension-enabled checkbox
extensionEnabledChange(checked) ==
    /\ checkboxChecked' = checked
    /\ enabled' = checked
    /\ prompts' = IF ~checked THEN clearExtensionPrompts ELSE prompts
    /\ turnCommitted' = NoEntry
    /\ UNCHANGED <<generationMode, lastGeneratedData, committedTrackerData,
                   lastActionWasSwipe, isGenerating, isPlotProgression, chat,
                   pc, genKind, plot, wasEnabled, plotButtonsDisabled>>
    /\ UNCHANGED <<saveFailed, call, recollection>>

\* change handler of the #rpg-generation-mode select
generationModeChange(mode) ==
    /\ generationMode' = mode
    /\ turnCommitted' = NoEntry
    /\ UNCHANGED <<enabled, lastGeneratedData, committedTrackerData,
                   lastActionWasSwipe, isGenerating, isPlotProgression, chat,
                   prompts, pc, genKind, plot, wasEnabled,
                   plotButtonsDisabled>>
    /\ UNCHANGED <<saveFailed, checkboxChecked, call, recollection>>

setIsGenerating(value) ==
    /\ isGenerating' = value
    /\ turnCommitted' = NoEntry
    /\ UNCHANGED <<enabled, generationMode, lastGeneratedData,
                   committedTrackerData, lastActionWasSwipe,
                   isPlotProgression, chat, prompts, pc, genKind, plot,
                   wasEnabled, plotButtonsDisabled>>
    /\ UNCHANGED <<saveFailed, checkboxChecked, call, recollection>>

\* ---------------------------------------------------------------- system
\* The commit state machine: the four host events and the settings the
\* handlers read.  The user changes settings between generations, and a
\* tracker update (isGenerating) runs in separate mode only.
Next ==
    \/ onMessageSent
    \/ \E kind \in {"send", "swipe", "other"} : onGenerationStarted(kind)
    \/ \E responseText \in Replies : onMessageReceived(responseText)
    \/ generationStopped
    \/ \E n \in 0..(MaxSwipes - 1) : onMessageSwiped(n)
    \/ UserIdle /\ extensionEnabledChange(~enabled)
    \/ UserIdle /\ ~isGenerating
                /\ \E mode \in {"together", "separate"} \ {generationMode} :
                      generationModeChange(mode)
    \/ UserIdle /\ generationMode = "separate"
                /\ setIsGenerating(~isGenerating)

Spec == Init /\ [][Next]_vars

\* Plot progression: the plot buttons next to new messages and the
\* extension toggle, which the user can also click while a plot progression
\* runs (the checkbox then still shows the value from before the run).
NextPlot ==
    \/ onMessageSent
    \/ \E kind \in {"send", "plot", "image"} : onGenerationStarted(kind)
    \/ \E responseText \in Replies : onMessageReceived(responseText)
    \/ generationStopped
    \/ sendPlotProgression
    \/ \E threw \in BOOLEAN : sendPlotProgressionReturn(threw)
    \/ plotRestoreTimer
    \/ (pc = "idle" \/ plot = "running")
          /\ \E checked \in BOOLEAN : extensionEnabledChange(checked)
    \/ UserIdle /\ \E mode \in {"together", "separate"} :
                      generationModeChange(mode)

SpecPlot == Init /\ [][NextPlot]_vars

\* Together mode with the extension on, where the persistence write of a
\* completion may fail: messages, swipes and plot progression.
NextSave ==
    \/ onMessageSent
    \/ \E kind \in {"send", "swipe", "plot"} : onGenerationStarted(kind)
    \/ \E responseText \in Replies, saveFails \in BOOLEAN :
          onMessageReceivedSave(responseText, saveFails)
    \/ generationStopped
    \/ \E n \in 0..(MaxSwipes - 1) : onMessageSwiped(n)
    \/ sendPlotProgression
    \/ \E threw \in BOOLEAN : sendPlotProgressionReturn(threw)
    \/ plotRestoreTimer

SpecSave == Init /\ [][NextSave]_vars

\* ---------------------------------------------------------------- parser
\* parseResponse applied to a reply, as onMessageReceived does first
callParseResponse ==
    /\ call.fn = "input"
    /\ call' = [fn |-> "parseResponse", arg |-> call.arg,
                out |-> parseResponse(call.arg)]
    /\ UNCHANGED programVars

\* the tracker block removal applied to the same reply, and parseResponse
\* applied to the text it leaves
callParseCleaned ==
    /\ call.fn = "parseResponse"
    /\ call' = [fn |-> "cleaned", arg |-> removeTrackerBlocks(call.arg),
                out |-> parseResponse(removeTrackerBlocks(call.arg))]
    /\ UNCHANGED programVars

InitParse ==
    /\ InitProgram
    /\ call \in {[fn |-> "input", arg |-> r, out |-> EmptyResult] :
                    r \in ParserReplies}

NextParse == callParseResponse \/ callParseCleaned

\* parseResponse and the block removal over every reply of ParserReplies
SpecParse == InitParse /\ [][NextParse]_vars

\* ---------------------------------------------------------------- regions
\* One fenced region line by line, as parseResponse reads its content:
\*   "S", "I", "C"  the header lines "Stats\n---", "Info Box\n---" and
\*                  "Present Characters\n---"
\*   "b"            an empty line
\*   "x"            a line of tracker data
Headers == {"S", "I", "C"}
LineKinds == Headers \cup {"b", "x"}
Regions == UNION {[1..k -> LineKinds] : k \in 0..MaxLines}

\* a field of the result that was not assigned (null)
NoSpan == <<>>

\* String.prototype.trim on a region: empty lines at both ends dropped
RECURSIVE trim(_)
trim(c) ==
    IF c = <<>> THEN c
    ELSE IF Head(c) = "b" THEN trim(Tail(c))
    ELSE IF c[Len(c)] = "b" THEN trim(SubSeq(c, 1, Len(c) - 1))
    ELSE c

Has(c, t) == \E i \in 1..Len(c) : c[i] = t
First(c, t) == CHOOSE i \in 1..Len(c) : c[i] = t /\ \A j \in 1..(i - 1) : c[j] # t

\* the whitespace steps of stripBrackets on the lines of a section: empty
\* lines disappear (the lines hold no brackets and no placeholders)
dropEmptyLines(c) == SelectSeq(c, LAMBDA l : l # "b")

\* the lookahead  (?=\n\s*\n\s*(stop headers)|$)  after a lazy  [\s\S]*? :
\* the match from line i ends at the first line followed by one or more
\* empty lines and then a stop header, else at the end of the content
LazyEnd(c, i, stops) ==
    LET ends == {e \in i..Len(c) :
                   \E k \in (e + 2)..Len(c) :
                      /\ c[k] \in stops
                      /\ \A j \in (e + 1)..(k - 1) : c[j] = "b"}
    IN  IF ends = {} THEN Len(c)
        ELSE CHOOSE e \in ends : \A d \in ends : e <= d

\* const hasMultipleSections: a Stats header and one of the other two
hasMultipleSections(content) ==
    Has(content, "S") /\ (Has(content, "I") \/ Has(content, "C"))

\* the body of parseResponse's loop for one region and an empty result
parseRegion(region) ==
    LET content == trim(region)
        span(t, stops) ==
            dropEmptyLines(SubSeq(content, First(content, t),
                                  LazyEnd(content, First(content, t), stops)))
    IN  IF hasMultipleSections(content)
        THEN [userStats |-> span("S", {"I", "C"}),
              infoBox |-> IF Has(content, "I") THEN span("I", {"C"})
                          ELSE NoSpan,
              characterThoughts |->
                  IF Has(content, "C")
                  THEN dropEmptyLines(SubSeq(content, First(content, "C"),
                                             Len(content)))
                  ELSE NoSpan]
        ELSE [userStats |-> IF Has(content, "S")
                            THEN dropEmptyLines(content) ELSE NoSpan,
              infoBox |-> IF ~Has(content, "S") /\ Has(content, "I")
                          THEN dropEmptyLines(content) ELSE NoSpan,
              characterThoughts |->
                  IF ~Has(content, "S") /\ ~Has(content, "I")
                     /\ Has(content, "C")
                  THEN dropEmptyLines(content) ELSE NoSpan]

callParseRegion ==
    /\ call.fn = "input"
    /\ call' = [fn |-> "parseRegion", arg |-> call.arg,
                out |-> parseRegion(call.arg)]
    /\ UNCHANGED programVars

InitRegion ==
    /\ InitProgram
    /\ call \in {[fn |-> "input", arg |-> c, out |-> NoSpan] : c \in Regions}

NextRegion == callParseRegion

\* parseResponse over every single fenced region of Regions
SpecRegion == InitRegion /\ [][NextRegion]_vars

\* ---------------------------------------------------------------- brackets
\* stripBrackets on a text written out piece by piece:
\*   "[" "]" "{" "}" "(" ")"   the six bracket characters
\*   "w"   a word of letters (what the placeholder pattern accepts between
\*         square brackets, as in [Name] or [Location])
\*   "d"   text the pattern does not accept: digits, punctuation
\* The texts hold no white space, colon, comma or pipe, so trim() and the
\* label and pipe clean-up replacements leave them as they are.
Pieces == {"[", "]", "{", "}", "(", ")", "w", "d"}
Texts == UNION {[1..k -> Pieces] : k \in 0..MaxText}

\* the condition of the while loop: the whole text is wrapped in a pair
Wrapped(text) ==
    /\ text # <<>>
    /\ \/ Head(text) = "[" /\ text[Len(text)] = "]"
       \/ Head(text) = "{" /\ text[Len(text)] = "}"
       \/ Head(text) = "(" /\ text[Len(text)] = ")"

\* the while loop: text.substring(1, text.length - 1) while wrapped; a
\* text of one character is its own first and last character
RECURSIVE unwrap(_)
unwrap(text) ==
    IF Wrapped(text) THEN unwrap(SubSeq(text, 2, Len(text) - 1))
    ELSE text

\* length of the run of words that starts at position i
RECURSIVE WordRun(_, _)
WordRun(text, i) ==
    IF i <= Len(text) /\ text[i] = "w" THEN 1 + WordRun(text, i + 1) ELSE 0

\* text.replace(placeholderPattern, ...): every "[" words "]" is removed,
\* left to right (one to three words always count as a placeholder)
RECURSIVE removePlaceholders(_, _)
removePlaceholders(text, i) ==
    IF i > Len(text) THEN <<>>
    ELSE LET n == WordRun(text, i + 1)
         IN  IF text[i] = "[" /\ n >= 1 /\ i + n + 1 <= Len(text)
                /\ text[i + n + 1] = "]"
             THEN removePlaceholders(text, i + n + 2)
             ELSE <<text[i]>> \o removePlaceholders(text, i + 1)

\* stripBrackets on such a text: unwrap, then remove the placeholders
stripBracketsText(text) == removePlaceholders(unwrap(text), 1)

callStripBrackets ==
    /\ call.fn = "input"
    /\ call' = [fn |-> "stripBrackets", arg |-> call.arg,
                out |-> stripBracketsText(call.arg)]
    /\ UNCHANGED programVars

\* stripBrackets applied to its own result
callStripBracketsAgain ==
    /\ call.fn = "stripBrackets"
    /\ call' = [fn |-> "stripBracketsAgain", arg |-> call.out,
                out |-> stripBracketsText(call.out)]
    /\ UNCHANGED programVars

InitStrip ==
    /\ InitProgram
    /\ call \in {[fn |-> "input", arg |-> t, out |-> <<>>] : t \in Texts}

NextStrip == callStripBrackets \/ callStripBracketsAgain

\* stripBrackets over every text of Texts
SpecStrip == InitStrip /\ [][NextStrip]_vars

\* ---------------------------------------------------------------- memory
\* startMemoryRecollection.  recollection.phase is the await the run stands
\* at: "batch" (processBatch), "prompt" (the retry modal), "delay" (the
\* pause between batches), "saving" (saveWorldInfoEntries), or the callback
\* it ended with: "complete" (onComplete), "error" (onError).
\*   i        the loop variable
\*   total    totalBatches
\*   done     per batch, how often its entries were added to allEntries
\*   failed   the batches for which the retry modal was shown
\*   skipped  the batches left with Skip Batch
\*   cause    what onError was called for
Batches(total) == 0..(total - 1)

\* variant: Retry goes on with the next batch
afterRetryNext(i) == i + 1

\* i--; continue;  followed by the i++ of the for statement
afterRetry(i) == i

\* the end of the loop body and the loop test: the pause and the next
\* batch, or the end of the loop
loopAdvance(r) ==
    IF r.i < r.total - 1 THEN [r EXCEPT !.phase = "delay"]
    ELSE [r EXCEPT !.phase = "saving", !.i = r.i + 1]

\* the call up to the first processBatch: lorebookThrows is the outcome of
\* getOrCreateMemoryLorebook, total the number of batches of the chat
startMemoryRecollection(total, lorebookThrows) ==
    /\ recollection.phase \in {"idle", "complete", "error"}
    /\ recollection' =
          LET r == [phase |-> "batch", i |-> 0, total |-> total,
                    done |-> [b \in Batches(total) |-> 0],
                    failed |-> {}, skipped |-> {}, cause |-> "none"]
          IN  IF lorebookThrows
              THEN [r EXCEPT !.phase = "error", !.cause = "lorebook"]
              ELSE IF total = 0 THEN [r EXCEPT !.phase = "saving"]
              ELSE r
    /\ UNCHANGED <<trackerVars, call>>

\* await processBatch(...) returns its entries or throws: "noResponse" for
\* an empty generation, "noMemories" for a response without memories
processBatch(outcome) ==
    /\ recollection.phase = "batch"
    /\ recollection' =
          IF outcome = "entries"
          THEN loopAdvance([recollection EXCEPT
                              !.done[recollection.i] = @ + 1])
          ELSE [recollection EXCEPT !.phase = "prompt",
                                    !.failed = @ \cup {recollection.i}]
    /\ UNCHANGED <<trackerVars, call>>

\* a button of the retry modal is clicked
retryPrompt(retry) ==
    /\ recollection.phase = "prompt"
    /\ recollection' =
          IF retry
          THEN [recollection EXCEPT !.phase = "batch",
                                    !.i = afterRetry(recollection.i)]
          ELSE loopAdvance([recollection EXCEPT
                              !.skipped = @ \cup {recollection.i}])
    /\ UNCHANGED <<trackerVars, call>>

\* the pause between two batches ends: i++ and the next batch
batchDelay ==
    /\ recollection.phase = "delay"
    /\ recollection' = [recollection EXCEPT !.phase = "batch", !.i = @ + 1]
    /\ UNCHANGED <<trackerVars, call>>

\* await saveWorldInfoEntries(...) returns or throws, then onComplete or
\* onError
saveWorldInfoEntries(throws) ==
    /\ recollection.phase = "saving"
    /\ recollection' =
          IF throws THEN [recollection EXCEPT !.phase = "error",
                                              !.cause = "save"]
          ELSE [recollection EXCEPT !.phase = "complete"]
    /\ UNCHANGED <<trackerVars, call>>

NextMemory ==
    \/ \E total \in 0..MaxBatches, lorebookThrows \in BOOLEAN :
          startMemoryRecollection(total, lorebookThrows)
    \/ \E outcome \in {"entries", "noResponse", "noMemories"} :
          processBatch(outcome)
    \/ \E retry \in BOOLEAN : retryPrompt(retry)
    \/ batchDelay
    \/ \E throws \in BOOLEAN : saveWorldInfoEntries(throws)

\* memory recollection runs, one after the other
SpecMemory == Init /\ [][NextMemory]_vars

\* a batch in hand succeeds or is skipped
BatchSettles == processBatch("entries") \/ retryPrompt(FALSE)

\* The generation call, the modal, the timer and the save all come back,
\* and no batch fails and is retried for ever.
SpecMemoryLive ==
    /\ SpecMemory
    /\ WF_vars(\E outcome \in {"entries", "noResponse", "noMemories"} :
                  processBatch(outcome))
    /\ WF_vars(\E retry \in BOOLEAN : retryPrompt(retry))
    /\ WF_vars(batchDelay)
    /\ WF_vars(\E throws \in BOOLEAN : saveWorldInfoEntries(throws))
    /\ SF_vars(BatchSettles)

\* ---------------------------------------------------------------- one region
\* One fenced region by what its content matches: the header of one section
\* kind (std: the standard header, else a variant such as "Scene Info"),
\* and the content shapes of the fallbacks it also shows (shapes: "stats"
\* for Health: n% with Energy: n%, "info" for Date: Location: Time:,
\* "chars" for "- Name" with Details:, "actions" for a list 1. 2. 3.).
SingleRegions ==
    {[header |-> h, std |-> s, shapes |-> fb, body |-> v] :
        h \in Kinds, s \in BOOLEAN, fb \in SUBSET Kinds, v \in {"a", "b"}}

\* isStats / isInfoBox / isCharacters / isActionSuggestions and the
\* if-else chain on an empty result: the first kind in this order whose
\* header or fallback the content matches
classify(header, shapes) ==
    LET matched == {header} \cup shapes
    IN  IF "stats" \in matched THEN "stats"
        ELSE IF "info" \in matched THEN "info"
        ELSE IF "chars" \in matched THEN "chars"
        ELSE "actions"

\* parseResponse applied to a reply that holds this one region
callParseSingle ==
    /\ call.fn = "input"
    /\ call' = [fn |-> "parseSingle", arg |-> call.arg,
                out |-> parseResponse(
                    [narr |-> TRUE,
                     blocks |-> <<Block(classify(call.arg.header,
                                                 call.arg.shapes),
                                        call.arg.std, call.arg.body)>>])]
    /\ UNCHANGED programVars

InitSingle ==
    /\ InitProgram
    /\ call \in {[fn |-> "input", arg |-> r, out |-> EmptyResult] :
                    r \in SingleRegions}

NextSingle == callParseSingle

\* parseResponse over every reply with one region of SingleRegions
SpecSingle == InitSingle /\ [][NextSingle]_vars

\* ---------------------------------------------------------------- actions
\* The list lines of an action suggestions text, in input order.  style is
\* "num" for a line the numbered pattern matches and "bullet" for one the
\* bullet pattern matches; len is the length of the trimmed text after the
\* marker; ph means the text is nothing but a bracketed placeholder or
\* quotes, so that nothing is left of it after cleaning.
ActionLengths ==
    {1, ActionLengthLimit - 1, ActionLengthLimit, ActionLengthLimit + 1}
CandidateLines ==
    {[style |-> st, len |-> n, ph |-> FALSE] :
        st \in {"num", "bullet"}, n \in ActionLengths}
      \cup {[style |-> st, len |-> 1, ph |-> TRUE] : st \in {"num", "bullet"}}
ActionTexts == UNION {[1..k -> CandidateLines] : k \in 0..MaxCandidates}

\* the two tests before actions.push(cleaned)
pushed(line) ==
    /\ line.len > 0 /\ line.len < ActionLengthLimit
    /\ ~line.ph

\* one while loop: the lines of a style from position i on, pushed in
\* order until the list holds MaxActions entries; the result names the
\* lines by their position in the text
RECURSIVE collect(_, _, _, _)
collect(text, style, i, actions) ==
    IF i > Len(text) \/ Len(actions) >= MaxActions THEN actions
    ELSE collect(text, style, i + 1,
                 IF text[i].style = style /\ pushed(text[i])
                 THEN Append(actions, i) ELSE actions)

parseActionSuggestions(actionsText) ==
    LET numbered == collect(actionsText, "num", 1, <<>>)
    IN  IF Len(numbered) = 0 THEN collect(actionsText, "bullet", 1, <<>>)
        ELSE numbered

callParseActionSuggestions ==
    /\ call.fn = "input"
    /\ call' = [fn |-> "parseActionSuggestions", arg |-> call.arg,
                out |-> parseActionSuggestions(call.arg)]
    /\ UNCHANGED programVars

InitActions ==
    /\ InitProgram
    /\ call \in {[fn |-> "input", arg |-> t, out |-> <<>>] : t \in ActionTexts}

NextActions == callParseActionSuggestions

\* parseActionSuggestions over every text of ActionTexts
SpecActions == InitActions /\ [][NextActions]_vars

\* ---------------------------------------------------------------- plain text
\* A reply without any fenced region, line by line:
\*   "x"  a line of narrative
\*   "b"  an empty line
\*   "-"  a line that holds three dashes and nothing else
PlainLines == {"x", "b", "-"}
PlainTexts == UNION {[1..k -> PlainLines] : k \in 0..MaxLines}

\* cleanedMessage.replace(/^\s*---\s*$/gm, ''): the dashes go, the line
\* break stays
removeDividers(text) ==
    [i \in 1..Len(text) |-> IF text[i] = "-" THEN "b" ELSE text[i]]

\* cleanedMessage.replace(/\n{3,}/g, '\n\n'): of several empty lines in a
\* row one is kept
RECURSIVE collapseNewlines(_)
collapseNewlines(text) ==
    IF Len(text) < 2 THEN text
    ELSE IF text[1] = "b" /\ text[2] = "b" THEN collapseNewlines(Tail(text))
    ELSE <<text[1]>> \o collapseNewlines(Tail(text))

\* what onMessageReceived stores for a reply without fenced regions: the
\* five block regexes find nothing, then dividers, newlines and trim()
cleanedPlain(text) == trim(collapseNewlines(removeDividers(text)))

\* parseResponse and the cleaning applied to a reply without fenced regions
callParsePlain ==
    /\ call.fn = "input"
    /\ call' = [fn |-> "parsePlain", arg |-> call.arg,
                out |-> [parsed |-> parseResponse([narr |-> TRUE,
                                                   blocks |-> <<>>]),
                         cleaned |-> cleanedPlain(call.arg)]]
    /\ UNCHANGED programVars

InitPlain ==
    /\ InitProgram
    /\ call \in {[fn |-> "input", arg |-> t, out |-> <<>>] : t \in PlainTexts}

NextPlain == callParsePlain

\* replies without fenced regions, over every text of PlainTexts
SpecPlain == InitPlain /\ [][NextPlain]_vars

\* a generation the host has begun ends: it reaches the handlers or stops
HostStep ==
    /\ pc # "idle"
    /\ \/ \E kind \in {"send", "plot"} : onGenerationStarted(kind)
       \/ \E responseText \in Replies : onMessageReceived(responseText)
       \/ generationStopped

\* Plot progression where the host's Generate call always resolves or
\* throws and the timer set by the finally block fires.
SpecPlotLive ==
    /\ SpecPlot
    /\ WF_vars(HostStep)
    /\ WF_vars(\E threw \in BOOLEAN : sendPlotProgressionReturn(threw))
    /\ WF_vars(plotRestoreTimer)

\* ---------------------------------------------------------------- steps
\* the steps the properties below speak about
\* slot n of the last message holds a non-empty stored text
HasStoredText(n) ==
    /\ LastIsAssistant
    /\ n < Len(LastMessage.swipes)
    /\ LastMessage.swipes[n + 1] # ""

SwipeToNewSlot(n) == ~HasStoredText(n) /\ onMessageSwiped(n)

SwipeToExistingSlot(n) == HasStoredText(n) /\ onMessageSwiped(n)

\* a completion that onMessageReceived parses: enabled, together mode
ParsedCompletion(responseText) ==
    enabled /\ generationMode = "together" /\ onMessageReceived(responseText)

\* two snapshots agree up to the difference between null and ""
SameData(x, y) ==
    \A f \in Fields : x[f] = y[f] \/ (Falsy(x[f]) /\ Falsy(y[f]))

\* the ledger entry of the current swipe slot of the last message
CurrentEntry(c) == c[Len(c)].led[c[Len(c)].swipe_id]

\* ---------------------------------------------------------------- C1
\* C1: the generation start that follows onMessageSent, with the extension
\* enabled, in together mode or outside a tracker update in separate mode,
\* leaves committedTrackerData equal to lastGeneratedData as it was before
\* the event, whatever lastGeneratedData held.
C1_PromotionOnNewMessage ==
    [][ ( /\ pc = "sent"
          /\ enabled
          /\ generationMode = "together" \/ ~isGenerating
          /\ onGenerationStarted("send") )
        => committedTrackerData' = Tracker(lastGeneratedData) ]_vars

\* a new-message generation has started and committedTrackerData holds
\* lastGeneratedData, a snapshot merged from two replies that no
\* auto-promotion can have produced
C1_Witness ==
    /\ pc = "generating" /\ genKind = "send" /\ enabled
    /\ committedTrackerData = Tracker(lastGeneratedData)
    /\ \A f \in Fields : committedTrackerData[f] = "a"

\* ---------------------------------------------------------------- C2
\* C2 as stated: the committed snapshot read by the prompt build of a swipe
\* generation equals the one read by the turn's first prompt build, and no
\* swipe request, swipe navigation or swipe generation changes
\* committedTrackerData.
C2_AsStated ==
    [][ /\ (onGenerationStarted("swipe") /\ enabled
              /\ turnCommitted # NoEntry)
           => committedTrackerData' = turnCommitted
        /\ ( \/ \E n \in 0..(MaxSwipes - 1) : onMessageSwiped(n)
             \/ onGenerationStarted("swipe")
             \/ genKind = "swipe"
                /\ \E r \in Replies : onMessageReceived(r) )
           => committedTrackerData' = committedTrackerData ]_vars

\* C2: when the turn's first prompt build read a committed snapshot that is
\* set on some field, the prompt build of every swipe generation of that
\* turn reads the same snapshot; swipe requests, swipe navigations and swipe
\* generation starts never change committedTrackerData, and the completion
\* of a swipe generation changes it only while all three of its fields are
\* empty.
C2_OneCommittedContextPerTurn ==
    [][ /\ (onGenerationStarted("swipe") /\ enabled
              /\ turnCommitted # NoEntry /\ ~AllFalsy(turnCommitted))
           => committedTrackerData' = turnCommitted
        /\ ( \/ \E n \in 0..(MaxSwipes - 1) : onMessageSwiped(n)
             \/ onGenerationStarted("swipe") )
           => committedTrackerData' = committedTrackerData
        /\ (genKind = "swipe" /\ ~AllFalsy(committedTrackerData)
              /\ \E r \in Replies : onMessageReceived(r))
           => committedTrackerData' = committedTrackerData ]_vars

\* a swipe generation runs on the turn's committed snapshot although
\* lastGeneratedData has moved on
C2_Witness ==
    /\ pc = "generating" /\ genKind = "swipe" /\ enabled
    /\ turnCommitted # NoEntry /\ ~AllFalsy(turnCommitted)
    /\ committedTrackerData = turnCommitted
    /\ ~SameData(Tracker(lastGeneratedData), committedTrackerData)

\* ---------------------------------------------------------------- C3
\* C3 as stated: a swipe to a slot without stored content sets the
\* pending-swipe flag, and neither the swipe event nor the generation start
\* nor the completion that follow change committedTrackerData, while the
\* completion puts the reply's data into lastGeneratedData.
C3_AsStated ==
    [][ /\ \A n \in 0..(MaxSwipes - 1) :
             (enabled /\ SwipeToNewSlot(n))
             => /\ lastActionWasSwipe'
                /\ committedTrackerData' = committedTrackerData
        /\ onGenerationStarted("swipe")
           => committedTrackerData' = committedTrackerData
        /\ \A r \in Replies :
             (genKind = "swipe" /\ ParsedCompletion(r))
             => /\ committedTrackerData' = committedTrackerData
                /\ \A f \in Fields :
                     ~Falsy(parseResponse(r)[f])
                     => lastGeneratedData'[f] = parseResponse(r)[f] ]_vars

\* C3: with the extension enabled, a swipe to a slot without stored content
\* sets the pending-swipe flag and leaves committedTrackerData unchanged;
\* the generation start that follows leaves it unchanged; the completion
\* leaves it unchanged when one of its three fields is set, and puts every
\* field the reply carries into lastGeneratedData.
C3_NewSwipeNotPromoted ==
    [][ /\ \A n \in 0..(MaxSwipes - 1) :
             (enabled /\ SwipeToNewSlot(n))
             => /\ lastActionWasSwipe'
                /\ committedTrackerData' = committedTrackerData
        /\ onGenerationStarted("swipe")
           => committedTrackerData' = committedTrackerData
        /\ \A r \in Replies :
             (genKind = "swipe" /\ ParsedCompletion(r)
                /\ ~AllFalsy(committedTrackerData))
             => /\ committedTrackerData' = committedTrackerData
                /\ \A f \in Fields :
                     ~Falsy(parseResponse(r)[f])
                     => lastGeneratedData'[f] = parseResponse(r)[f] ]_vars

\* a swipe generation has completed into slot 1: its data is in the ledger
\* and in lastGeneratedData, and committedTrackerData differs from it
C3_Witness ==
    /\ pc = "idle" /\ enabled /\ LastIsAssistant
    /\ LastMessage.swipe_id = 1 /\ Len(LastMessage.swipes) = 2
    /\ CurrentEntry(chat) # NoEntry
    /\ ~AllFalsy(Tracker(CurrentEntry(chat)))
    /\ ~AllFalsy(committedTrackerData)
    /\ ~SameData(Tracker(lastGeneratedData), committedTrackerData)
    /\ ~lastActionWasSwipe

\* ---------------------------------------------------------------- C4
\* C4: a swipe to a slot whose stored text is non-empty leaves
\* committedTrackerData and the pending-swipe flag as they were.
C4_NavigationIsDisplayOnly ==
    [][ \A n \in 0..(MaxSwipes - 1) :
          SwipeToExistingSlot(n)
          => /\ committedTrackerData' = committedTrackerData
             /\ lastActionWasSwipe' = lastActionWasSwipe ]_vars

\* the user is back on the generated slot 0 with the flag still set from
\* an earlier swipe, and the displayed data differs from the committed data
C4_Witness ==
    /\ pc = "idle" /\ enabled /\ LastIsAssistant
    /\ LastMessage.swipe_id = 0 /\ LastMessage.swipes[1] # ""
    /\ LastMessage.led[0] # NoEntry
    /\ lastActionWasSwipe
    /\ lastGeneratedData = [f \in Fields |-> LastMessage.led[0][f]]
    /\ Tracker(lastGeneratedData) # committedTrackerData

\* ---------------------------------------------------------------- C5
\* C5 as stated: with the extension enabled, a swipe to a slot with a
\* ledger entry S makes lastGeneratedData equal to S on every field.
C5_AsStated ==
    [][ \A n \in 0..(MaxSwipes - 1) :
          (enabled /\ onMessageSwiped(n) /\ LastMessage.led[n] # NoEntry)
          => lastGeneratedData' = Tracker(LastMessage.led[n]) ]_vars

\* C5: with the extension enabled, a swipe to a slot with a ledger entry S
\* makes every field of lastGeneratedData equal to the field of S, except
\* that an empty-string field of S is read back as null.
C5_SwipeNavigationRoundTrip ==
    [][ \A n \in 0..(MaxSwipes - 1) :
          (enabled /\ onMessageSwiped(n) /\ LastMessage.led[n] # NoEntry)
          => \A f \in Fields :
               lastGeneratedData'[f] =
                 IF LastMessage.led[n][f] = "" THEN NULL
                 ELSE LastMessage.led[n][f] ]_vars

\* the user has moved to a slot whose entry has an empty-string field, and
\* lastGeneratedData holds the entry with that field null
C5_Witness ==
    /\ pc = "idle" /\ enabled /\ LastIsAssistant
    /\ LastMessage.swipe_id = 0 /\ Len(LastMessage.swipes) = 2
    /\ CurrentEntry(chat) # NoEntry
    /\ \E f \in Fields : CurrentEntry(chat)[f] = ""
                         /\ lastGeneratedData[f] = NULL
    /\ \E f \in Fields : ~Falsy(CurrentEntry(chat)[f])
    /\ SameData(Tracker(CurrentEntry(chat)), lastGeneratedData)

\* ---------------------------------------------------------------- C6
\* C6 as stated: after a parsed completion the ledger entry of the current
\* swipe slot of the newest assistant message is recorded and agrees with
\* lastGeneratedData on the three tracker fields.
C6_AsStated ==
    [][ \A r \in Replies :
          ParsedCompletion(r)
          => /\ CurrentEntry(chat') # NoEntry
             /\ SameData(Tracker(CurrentEntry(chat')),
                         lastGeneratedData') ]_vars

\* C6: after a completion handled with the extension enabled in together
\* mode the ledger entry of the current swipe slot of the newest assistant
\* message is recorded, equals the parse result of the reply, and agrees
\* with lastGeneratedData on every field the parse result carries.
C6_LedgerRecordsParseResult ==
    [][ \A r \in Replies :
          ParsedCompletion(r)
          => /\ CurrentEntry(chat') = parseResponse(r)
             /\ \A f \in Fields :
                  ~Falsy(parseResponse(r)[f])
                  => lastGeneratedData'[f] = CurrentEntry(chat')[f] ]_vars

\* the current slot's entry carries one field and lacks another that
\* lastGeneratedData still holds from an earlier reply
C6_Witness ==
    /\ pc = "idle" /\ enabled /\ LastIsAssistant
    /\ CurrentEntry(chat) # NoEntry
    /\ \E f \in Fields : /\ ~Falsy(CurrentEntry(chat)[f])
                         /\ lastGeneratedData[f] = CurrentEntry(chat)[f]
    /\ \E f \in Fields : /\ CurrentEntry(chat)[f] = NULL
                         /\ ~Falsy(lastGeneratedData[f])
    /\ ~lastActionWasSwipe

\* ---------------------------------------------------------------- C7
\* C7 as stated: after every completion event the pending-swipe flag is
\* false.
C7_AsStated ==
    [][ (\E r \in Replies : onMessageReceived(r))
        => ~lastActionWasSwipe' ]_vars

\* C7: after every completion event handled with the extension enabled, in
\* either generation mode, the pending-swipe flag is false.
C7_FlagResetOnCompletion ==
    [][ (enabled /\ \E r \in Replies : onMessageReceived(r))
        => ~lastActionWasSwipe' ]_vars

\* a swipe generation has completed into the slot the user swiped to, in
\* separate mode, and the flag is down
C7_Witness ==
    /\ pc = "idle" /\ enabled /\ generationMode = "separate"
    /\ LastIsAssistant
    /\ LastMessage.swipe_id = 1 /\ Len(LastMessage.swipes) = 2
    /\ ~lastActionWasSwipe

\* ---------------------------------------------------------------- C8
\* C8 as stated: after a parsed completion that found committedTrackerData
\* empty on all three fields, committedTrackerData agrees with
\* lastGeneratedData on all three fields.
C8_AsStated ==
    [][ \A r \in Replies :
          (ParsedCompletion(r) /\ AllFalsy(committedTrackerData))
          => SameData(committedTrackerData',
                      Tracker(lastGeneratedData')) ]_vars

\* C8: after a parsed completion that found committedTrackerData empty on
\* all three fields, committedTrackerData equals the parse result of the
\* reply on all three fields.
C8_FirstParseAutoPromotion ==
    [][ \A r \in Replies :
          (ParsedCompletion(r) /\ AllFalsy(committedTrackerData))
          => committedTrackerData' = Tracker(parseResponse(r)) ]_vars

\* the first reply has been parsed and auto-promoted: committedTrackerData
\* holds what the ledger recorded for it
C8_Witness ==
    /\ pc = "idle" /\ enabled /\ generationMode = "together"
    /\ Len(chat) = 2 /\ LastIsAssistant
    /\ LastMessage.swipe_id = 0 /\ Len(LastMessage.swipes) = 1
    /\ CurrentEntry(chat) # NoEntry
    /\ ~AllFalsy(committedTrackerData)
    /\ committedTrackerData = Tracker(CurrentEntry(chat))

\* ---------------------------------------------------------------- C9
\* C9 as stated: after a parsed completion every field of lastGeneratedData
\* agrees with the field of the parse result, null fields included.
C9_AsStated ==
    [][ \A r \in Replies :
          ParsedCompletion(r)
          => SameData(Tracker(lastGeneratedData'),
                      Tracker(parseResponse(r))) ]_vars

\* C9: after a parsed completion every field of lastGeneratedData equals
\* the field of the parse result where that is non-empty, and keeps the
\* value it had before the completion where the parse result has null or
\* the empty string.
C9_ParseMergesIntoLastGenerated ==
    [][ \A r \in Replies :
          ParsedCompletion(r)
          => \A f \in Fields :
               lastGeneratedData'[f] =
                 IF parseResponse(r)[f] \in {NULL, ""}
                 THEN lastGeneratedData[f]
                 ELSE parseResponse(r)[f] ]_vars

\* a reply without tracker data has been parsed into the current slot and
\* lastGeneratedData still holds the data of an earlier reply
C9_Witness ==
    /\ pc = "idle" /\ enabled /\ LastIsAssistant
    /\ CurrentEntry(chat) # NoEntry
    /\ AllFalsy(Tracker(CurrentEntry(chat)))
    /\ ~AllFalsy(lastGeneratedData)
    /\ ~lastActionWasSwipe
    /\ LastMessage.swipe_id = 1

\* ---------------------------------------------------------------- C10
\* C10: when the generation issued by sendPlotProgression starts, none of
\* the tracker prompt slots (inject, example, context, actions) holds text
\* for the prompt the host builds next.
C10_PlotPromptHasNoTrackerText ==
    [][ onGenerationStarted("plot")
        => /\ prompts'.inject = ""
           /\ prompts'.example = NoText
           /\ prompts'.context = NoText
           /\ prompts'.actions = "" ]_vars

\* ---------------------------------------------------------------- C11
\* C11: every sendPlotProgression call that passed the enabled check (the
\* extension was enabled when it began) is followed by a state where the
\* call is over, enabled is true again and the plot buttons are enabled,
\* whether Generate resolved or threw.
C11_EnabledRestoredAfterPlot ==
    (plot = "running") ~> (plot = "none" /\ enabled /\ ~plotButtonsDisabled)

\* a plot progression whose Generate call resolved is over: the extension
\* is enabled, the buttons work, and the plot flag is still as the call
\* set it
C11_Witness ==
    /\ plot = "none" /\ enabled /\ ~plotButtonsDisabled
    /\ isPlotProgression
    /\ pc = "idle"
    /\ LastIsAssistant

\* ---------------------------------------------------------------- C12
\* C12 as stated: from the start of sendPlotProgression until the enabled
\* state is restored, no generation start and no generation completion
\* changes committedTrackerData.
C12_AsStated ==
    [][ ( /\ plot # "none"
          /\ \/ \E kind \in {"send", "plot", "image"} :
                   onGenerationStarted(kind)
             \/ \E r \in Replies : onMessageReceived(r) )
        => committedTrackerData' = committedTrackerData ]_vars

\* C12: from the start of sendPlotProgression until the enabled state is
\* restored, a generation start or completion handled while enabled is
\* still false (the user has not switched the extension on again in the
\* meantime) leaves committedTrackerData unchanged.
C12_NoPromotionDuringPlot ==
    [][ ( /\ plot # "none"
          /\ ~enabled
          /\ \/ \E kind \in {"send", "plot", "image"} :
                   onGenerationStarted(kind)
             \/ \E r \in Replies : onMessageReceived(r) )
        => committedTrackerData' = committedTrackerData ]_vars

\* the plot-progression generation has started with the flag down and
\* lastGeneratedData ahead of committedTrackerData, and nothing was promoted
C12_Witness ==
    /\ plot = "running" /\ pc = "generating" /\ genKind = "plot"
    /\ ~enabled
    /\ ~lastActionWasSwipe
    /\ generationMode = "together"
    /\ ~SameData(Tracker(lastGeneratedData), committedTrackerData)

\* ---------------------------------------------------------------- C13
\* C13: after every generation start handled with the extension enabled,
\* the tracker text in the prompt slots is built from committedTrackerData
\* as the promotion step left it: in together mode the example slot holds
\* the example of that snapshot (or nothing), in separate mode the context
\* slot holds its summary; with a swipe pending that snapshot is the one
\* from before the generation start.
C13_PromptBuiltFromCommitted ==
    [][ \A kind \in {"send", "swipe", "other"} :
          (enabled /\ onGenerationStarted(kind))
          => /\ lastActionWasSwipe
                  => committedTrackerData' = committedTrackerData
             /\ IF generationMode = "together"
                THEN prompts'.example \in
                       {generateTrackerExample(committedTrackerData'), NoText}
                ELSE prompts'.context =
                       generateContextualSummary(committedTrackerData') ]_vars

\* ---------------------------------------------------------------- C14
\* C14: a generation that starts and is then stopped by the host without a
\* completion event leaves lastGeneratedData as it was before the start,
\* and committedTrackerData either as it was or equal to that
\* lastGeneratedData on all three fields: the generation start changes
\* nothing else, and the stop changes neither snapshot.
C14_AbortedGeneration ==
    [][ /\ (\E kind \in {"send", "swipe", "other"} :
               onGenerationStarted(kind))
           => /\ lastGeneratedData' = lastGeneratedData
              /\ \/ committedTrackerData' = committedTrackerData
                 \/ \A f \in Fields :
                      committedTrackerData'[f] = lastGeneratedData[f]
        /\ (pc = "generating" /\ generationStopped)
           => /\ lastGeneratedData' = lastGeneratedData
              /\ committedTrackerData' = committedTrackerData ]_vars

\* a new-message generation was started and stopped: no reply follows the
\* user's message, and committedTrackerData holds the whole of a
\* lastGeneratedData that was merged from two replies
C14_Witness ==
    /\ pc = "idle" /\ enabled
    /\ chat # <<>> /\ LastMessage.is_user
    /\ turnCommitted # NoEntry
    /\ committedTrackerData = turnCommitted
    /\ \A f \in Fields : /\ committedTrackerData[f] = "a"
                         /\ lastGeneratedData[f] = "a"

\* ---------------------------------------------------------------- C15
\* C15: while a message is the last of the chat no entry of its swipe
\* ledger is removed; a completion handled in together mode at swipe index
\* i makes the entry at i the parse result of the new reply, all four
\* fields, and leaves the message's entries at every other index as they
\* were.
C15_SwipeLedgerDiscipline ==
    [][ /\ (LastIsAssistant /\ Len(chat') = Len(chat))
           => \A i \in 0..(MaxSwipes - 1) :
                LastMessage.led[i] # NoEntry
                => chat'[Len(chat)].led[i] # NoEntry
        /\ \A r \in Replies :
             ParsedCompletion(r)
             => LET m == chat'[Len(chat')]
                IN  /\ m.led[m.swipe_id] = parseResponse(r)
                    /\ \A i \in 0..(MaxSwipes - 1) \ {m.swipe_id} :
                         m.led[i] = IF Len(chat') = Len(chat)
                                    THEN LastMessage.led[i]
                                    ELSE NoEntry ]_vars

\* the only message of the chat has one slot whose entry is that of a
\* reply without tracker data, while lastGeneratedData still holds the
\* data of the reply the slot held before: the entry was replaced whole
C15_Witness ==
    /\ pc = "idle" /\ enabled
    /\ Len(chat) = 1 /\ LastIsAssistant
    /\ LastMessage.swipe_id = 0 /\ Len(LastMessage.swipes) = 1
    /\ LastMessage.led[0] = parseResponse(ReplyPlain)
    /\ ~AllFalsy(lastGeneratedData)

\* ---------------------------------------------------------------- C16
\* C16: when the persistence write that ends the handling of a parsed
\* completion fails, the handling still finishes: lastGeneratedData,
\* committedTrackerData and the ledger entry of the reply have their updated
\* values, and lastActionWasSwipe and isPlotProgression are both false.
C16_PersistenceFailureNonBlocking ==
    [][ \A r \in Replies :
          (enabled /\ generationMode = "together"
                   /\ onMessageReceivedSave(r, TRUE))
          => /\ pc' = "idle"
             /\ lastGeneratedData' =
                   MergeParsed(lastGeneratedData, parseResponse(r))
             /\ committedTrackerData' =
                   AutoCommit(committedTrackerData, parseResponse(r))
             /\ CurrentEntry(chat') = parseResponse(r)
             /\ ~lastActionWasSwipe'
             /\ ~isPlotProgression' ]_vars

\* the write failed for a reply generated into a new second slot (the
\* swipe had set lastActionWasSwipe), and the handling has finished
C16_Witness ==
    /\ saveFailed /\ pc = "idle" /\ enabled
    /\ LastIsAssistant
    /\ LastMessage.swipe_id = 1 /\ Len(LastMessage.swipes) = 2
    /\ LastMessage.led[1] = parseResponse(ReplyScene)
    /\ ~AllFalsy(lastGeneratedData)
    /\ ~lastActionWasSwipe

\* ---------------------------------------------------------------- C17
\* C17: for every reply, parseResponse applied to the cleaned text yields a
\* snapshot without any value, and the cleaned text holds none of the
\* fenced regions that parseResponse classifies as a tracker section.
C17_ReparseOfCleanedTextIsEmpty ==
    call.fn = "cleaned"
    => /\ \A f \in DOMAIN call.out : Falsy(call.out[f])
       /\ call.arg.blocks = <<>>

\* ---------------------------------------------------------------- C18
\* the section of header t in a region: from its header up to the next
\* header or the end of the region
SectionSpan(c, t) ==
    LET i == First(c, t)
        later == {k \in (i + 1)..Len(c) : c[k] \in Headers}
        last == IF later = {} THEN Len(c)
                ELSE (CHOOSE k \in later : \A d \in later : k <= d) - 1
    IN  SelectSeq(SubSeq(c, i, last), LAMBDA l : l # "b")

\* C18: for every fenced region that holds the headers of two or more of
\* the sections stats, info box and present characters, the field of each
\* section whose header is present is the span from that header up to the
\* next header or the end of the region.
C18_CombinedBlockSplitting ==
    (call.fn = "parseRegion"
       /\ Cardinality({t \in Headers : Has(call.arg, t)}) >= 2)
    => /\ Has(call.arg, "S")
            => call.out.userStats = SectionSpan(call.arg, "S")
       /\ Has(call.arg, "I")
            => call.out.infoBox = SectionSpan(call.arg, "I")
       /\ Has(call.arg, "C")
            => call.out.characterThoughts = SectionSpan(call.arg, "C")

\* ---------------------------------------------------------------- C19
\* the result field of a section kind
FieldOf(kind) ==
    CASE kind = "stats" -> "userStats"
      [] kind = "info" -> "infoBox"
      [] kind = "chars" -> "characterThoughts"
      [] kind = "actions" -> "actionSuggestions"

\* what parseResponse stores for a region: its content, stripped unless it
\* is the action list
StoredValue(b) ==
    IF b.kind # "actions" /\ b.body = "ph" THEN "" ELSE b.body

\* indexes of the regions of a kind, and the least index of a set
RegionsOf(blocks, kind) == {i \in 1..Len(blocks) : blocks[i].kind = kind}
Least(S) == CHOOSE i \in S : \A j \in S : i <= j

C20_StripBracketsFixedPoint ==
    call.fn = "stripBracketsAgain" => call.out = call.arg

\* ---------------------------------------------------------------- C21
\* C21: for every reply without fenced regions parseResponse returns null
\* in all four fields, and the stored text is the reply trimmed and with
\* runs of three or more newlines collapsed, nothing else changed.
C21_NoFencedRegions ==
    call.fn = "parsePlain"
    => /\ \A f \in DOMAIN call.out.parsed : call.out.parsed[f] = NULL
       /\ call.out.cleaned = trim(collapseNewlines(call.arg))

\* ---------------------------------------------------------------- C22
\* C22: for every reply with one fenced region whose content holds the
\* header of exactly one section kind, parseResponse fills the field of
\* that kind and leaves the other three fields null.
C22_SingleHeaderSingleField ==
    call.fn = "parseSingle"
    => \A kind \in Kinds :
         IF kind = call.arg.header
         THEN ~Falsy(call.out[FieldOf(kind)])
         ELSE call.out[FieldOf(kind)] = NULL

\* ---------------------------------------------------------------- C23
\* a candidate line the claim accepts: its text, once cleaned, has between
\* 1 and 200 characters
Accepted(line) == ~line.ph /\ line.len >= 1 /\ line.len <= 200

\* the first three accepted lines of a style, by position
FirstAccepted(text, style) ==
    LET idx == {i \in 1..Len(text) :
                  text[i].style = style /\ Accepted(text[i])}
        kept == {i \in idx : Cardinality({j \in idx : j < i}) < 3}
    IN  [n \in 1..Cardinality(kept) |->
            CHOOSE i \in kept : Cardinality({j \in kept : j < i}) = n - 1]

\* C23: parseActionSuggestions returns the first three accepted candidate
\* lines in input order, never more than three; a line is accepted exactly
\* when its text has 1 to 200 characters; the bullet lines are the
\* candidates only when the text holds no numbered line.
C23_ActionSuggestionExtraction ==
    call.fn = "parseActionSuggestions"
    => /\ Len(call.out) <= 3
       /\ call.out =
            IF \E i \in 1..Len(call.arg) : call.arg[i].style = "num"
            THEN FirstAccepted(call.arg, "num")
            ELSE FirstAccepted(call.arg, "bullet")

\* ---------------------------------------------------------------- C24
\* the loop is running
InLoop == recollection.phase \in {"batch", "prompt", "delay"}

\* every batch was processed once or skipped, never both
AllBatchesHandled ==
    \A b \in Batches(recollection.total) :
       \/ recollection.done[b] = 1 /\ b \notin recollection.skipped
       \/ recollection.done[b] = 0 /\ b \in recollection.skipped

\* the batches are taken in index order; a failing batch opens the retry
\* modal with the loop variable unchanged; Retry runs the same batch again;
\* Skip Batch marks the batch and moves on
LoopDiscipline ==
    /\ InLoop => \/ recollection'.phase \notin {"batch", "prompt", "delay"}
                 \/ recollection'.i \in {recollection.i, recollection.i + 1}
    /\ (InLoop /\ recollection'.phase \in {"batch", "prompt", "delay"})
          => \A b \in Batches(recollection.total) :
               (recollection'.done[b] # recollection.done[b]
                  \/ (b \in recollection'.skipped
                        /\ b \notin recollection.skipped))
               => b = recollection.i
    /\ \A outcome \in {"noResponse", "noMemories"} :
         processBatch(outcome)
         => /\ recollection'.phase = "prompt"
            /\ recollection'.i = recollection.i
    /\ retryPrompt(TRUE)
         => /\ recollection'.phase = "batch"
            /\ recollection'.i = recollection.i
            /\ recollection'.done = recollection.done
            /\ recollection'.skipped = recollection.skipped
    /\ retryPrompt(FALSE)
         => /\ recollection.i \in recollection'.skipped
            /\ recollection'.phase \in {"delay", "saving"}

\* C24 as stated: the loop discipline, and every run whose failing batches
\* are skipped or succeed in the end reports completion.
C24_AsStated ==
    /\ [][LoopDiscipline]_vars
    /\ [](recollection.phase = "complete" => AllBatchesHandled)
    /\ (InLoop ~> recollection.phase = "complete")

\* C24: the loop discipline; the loop always ends with every batch
\* processed once or skipped, and the run then reports completion unless
\* saving the entries throws, in which case it reports that error.
C24_BatchLoopTerminates ==
    /\ [][LoopDiscipline]_vars
    /\ [](recollection.phase \in {"saving", "complete"} => AllBatchesHandled)
    /\ [](recollection.phase = "error"
            => \/ recollection.cause = "lorebook"
               \/ recollection.cause = "save" /\ AllBatchesHandled)
    /\ (InLoop ~> recollection.phase \in {"complete", "error"})

\* a run of three batches has reported completion: one batch failed and
\* succeeded on Retry, another failed and was skipped
C24_Witness ==
    /\ recollection.phase = "complete"
    /\ recollection.total = 3
    /\ \E b \in recollection.failed : recollection.done[b] = 1
    /\ recollection.skipped # {}

\* ---------------------------------------------------------------- C25
\* C25: the completion of the generation that a plot-progression request
\* triggered leaves isPlotProgression false, and so does the catch block
\* when Generate throws.
C25_PlotFlagClearedOnCompletion ==
    [][ /\ (isPlotProgression /\ genKind = "plot"
              /\ \E r \in Replies : onMessageReceived(r))
           => ~isPlotProgression'
        /\ sendPlotProgressionReturn(TRUE) => ~isPlotProgression' ]_vars

\* ---------------------------------------------------------------- C26
\* C26: in separate mode a generation start that occurs while the tracker
\* update is in progress (isGenerating) leaves committedTrackerData as it
\* is, whatever lastActionWasSwipe holds.
C26_NoPromotionDuringTrackerUpdate ==
    [][ \A kind \in {"send", "swipe", "other"} :
          (generationMode = "separate" /\ isGenerating
             /\ onGenerationStarted(kind))
          => committedTrackerData' = committedTrackerData ]_vars

\* such a generation has started with the extension enabled, the flag
\* clear and lastGeneratedData different from committedTrackerData: a
\* promotion would have changed committedTrackerData
C26_Witness ==
    /\ pc = "generating" /\ enabled
    /\ generationMode = "separate" /\ isGenerating
    /\ ~lastActionWasSwipe
    /\ ~SameData(lastGeneratedData, committedTrackerData)

\* ---------------------------------------------------------------- C27
\* C27: a swipe to a slot without ledger entry leaves lastGeneratedData
\* and committedTrackerData as they are.
C27_SwipeWithoutEntryKeepsData ==
    [][ \A n \in 0..(MaxSwipes - 1) :
          (onMessageSwiped(n) /\ LastMessage.led[n] = NoEntry)
          => /\ lastGeneratedData' = lastGeneratedData
             /\ committedTrackerData' = committedTrackerData ]_vars

\* the user has swiped to a new slot, which has no entry, while
\* lastGeneratedData holds data
C27_Witness ==
    /\ pc = "swiped" /\ enabled
    /\ CurrentEntry(chat) = NoEntry
    /\ ~AllFalsy(lastGeneratedData)

\* ---------------------------------------------------------------- C28
\* C28: lastActionWasSwipe is true only from a swipe to a new slot until
\* the end of the generation that swipe triggers: in every state where no
\* such generation is pending or in flight the flag is false.
C28_FlagOnlyDuringSwipeGeneration ==
    lastActionWasSwipe
    => \/ pc = "swiped"
       \/ pc = "generating" /\ genKind = "swipe"

\* ---------------------------------------------------------------- C29
\* C29: when the last thing the user did with the settings toggle was to
\* switch the extension off, also during a plot-progression request or
\* its restore window, the extension is off once the delayed restore has
\* run.
C29_UserChoiceSurvivesPlotRestore ==
    (plot = "none" /\ ~checkboxChecked) => ~enabled

\* ---------------------------------------------------------------- C30
\* the tracker fields parsed from one reply
SnapshotOf(responseText) == Tracker(parseResponse(responseText))

====
